---- MODULE Spec2Model ----
(***************************************************************************)
(* A model of landau_sampler.py: the partition generator `partitions`,     *)
(* the brute-force search `landau`, and the audio transform                *)
(* `landau_audio_loop`.  One behaviour is one call of one of the three     *)
(* functions; its arguments are chosen in Init.                            *)
(*                                                                         *)
(* Arrays keep Python's 0-based indices: an array of N rows is a function  *)
(* with domain 0..N-1.  Python lists (partitions) are sequences.           *)
(* Sample values are integers; the one division of the program (the        *)
(* normalisation) produces the exact quotient, kept as a num/den pair.     *)
(***************************************************************************)
EXTENDS Integers, Sequences, FiniteSets, TLC

VARIABLES
  call,            \* which function is being called
  pc,              \* position in the called function
  n,               \* partitions/landau: the argument n; audio: int(round(duration))
  max_val,         \* partitions: the argument max_val (None when omitted)
  gen,             \* what the generator partitions(...) has still to yield
  yielded,         \* what a consumer of partitions(n, max_val) has received so far
  best_lcm,        \* landau: best_lcm
  best_partition,  \* landau: best_partition
  ndim,            \* audio.ndim of the argument
  shape,           \* audio.shape, of the argument and then of the reshaped buffer
  audio,           \* the sample buffer: audio[t] when one-dimensional, else audio[t][c]
  sample_rate,     \* the argument sample_rate
  n_samples,       \* audio.shape[0]
  n_channels,      \* audio.shape[1]
  warned,          \* whether the duration warning was printed
  partition,       \* the partition argument, then the partition in use
  partition_is_None, \* whether the partition argument was None
  g_n,             \* g_n
  output_samples,  \* output_samples (None until the output is allocated)
  output,          \* the output buffer, output[t][c]
  current_pos,     \* current_pos
  i,               \* index of the enumerate(partition) loop
  seg,             \* the segment being looped: [start, end, len]
  n_loops,         \* n_loops
  loop,            \* index of the range(n_loops) loop
  segments,        \* every segment cut so far, in order: [start, end, len, n_loops]
  max_peak,        \* the max_val of the normalisation (None until computed)
  out_shape,       \* shape of the returned array
  error            \* the exception raised, [type |-> "none"] when none

gvars == <<n, max_val, gen, yielded, best_lcm, best_partition>>
ivars == <<ndim, shape, audio, sample_rate, n_samples, n_channels>>
avars == <<warned, partition, partition_is_None, g_n, output_samples, output,
           current_pos, i, seg, n_loops, loop, segments, max_peak, out_shape>>
vars == <<call, pc, gvars, ivars, avars, error>>

\* Python's None, for the integer-valued names that can hold it.
None == -1

(***************************************************************************)
(* Bounds of the input space.                                              *)
(***************************************************************************)
MaxN == 15          \* landau(n) is called with n in 0..MaxN
MaxGenN == 7        \* partitions(n, max_val) is called with n in 0..MaxGenN
MaxRate == 2        \* sample_rate in 1..MaxRate
MaxSamples == 7     \* the input buffer has 0..MaxSamples rows
MaxChannels == 2    \* a two-dimensional input has 1..MaxChannels columns
MaxPart == 3        \* parts of a caller-supplied partition are in 0..MaxPart
MaxParts == 3       \* a caller-supplied partition has 0..MaxParts parts

(***************************************************************************)
(* Arithmetic helpers.                                                     *)
(***************************************************************************)
Abs(x) == IF x < 0 THEN -x ELSE x

Min(a, b) == IF a < b THEN a ELSE b

RECURSIVE gcd(_, _)
gcd(a, b) == IF b = 0 THEN Abs(a) ELSE gcd(b, a % b)

\* math.lcm of two integers: 0 when either is 0, never negative.
lcm(a, b) == IF a = 0 \/ b = 0 THEN 0 ELSE Abs(a * b) \div gcd(a, b)

\* functools.reduce(f, lst, acc) with f = lcm
RECURSIVE reduce_lcm(_, _)
reduce_lcm(lst, acc) ==
  IF lst = <<>> THEN acc ELSE reduce_lcm(Tail(lst), lcm(acc, Head(lst)))

\* (faulty variant: the product in place of the lcm)
RECURSIVE reduce_mul(_, _)
reduce_mul(lst, acc) ==
  IF lst = <<>> THEN acc ELSE reduce_mul(Tail(lst), acc * Head(lst))

lcm_listAsProduct(lst) == reduce_mul(lst, 1)

lcm_list(lst) == reduce_lcm(lst, 1)

\* the builtin sum of a list
RECURSIVE sum(_)
sum(lst) == IF lst = <<>> THEN 0 ELSE Head(lst) + sum(Tail(lst))

(***************************************************************************)
(* partitions(n, max_val): the sequence of lists the generator yields, in  *)
(* the order it yields them.                                               *)
(***************************************************************************)
\* [i] + p for every p of ps
\* (faulty variant: p + [i], the part put last)
PrependAllAtEnd(x, ps) == [k \in 1..Len(ps) |-> ps[k] \o <<x>>]

PrependAll(x, ps) == [k \in 1..Len(ps) |-> <<x>> \o ps[k]]

\* first value of range(min(n, max_val), 0, -1)
RangeStart(m, mv) == Min(m, mv)

\* the bound handed to the recursive call partitions(n - i, i)
SubBound(m, x) == x

RECURSIVE partitions(_, _), PartitionsFrom(_, _)
\* the iterations i, i-1, ..., 1 of the for loop of partitions(m, ...)
PartitionsFrom(m, x) ==
  IF x < 1 THEN <<>>
  ELSE PrependAll(x, partitions(m - x, SubBound(m, x))) \o PartitionsFrom(m, x - 1)

partitions(m, mv) ==
  LET bound == IF mv = None THEN m ELSE mv
  IN  IF m = 0 THEN << <<>> >>
      ELSE PartitionsFrom(m, RangeStart(m, bound))

(***************************************************************************)
(* landau(n)                                                               *)
(***************************************************************************)
\* one iteration of the for loop of landau, on the pair (best_lcm, best_partition)
\* (faulty variant: an equal LCM also replaces the best)
LandauStepOnTie(best, p) ==
  LET l == lcm_list(p)
  IN  IF l >= best[1] THEN <<l, p>> ELSE best

LandauStep(best, p) ==
  LET l == lcm_list(p)
  IN  IF l > best[1] THEN <<l, p>> ELSE best

RECURSIVE LandauLoop(_, _)
LandauLoop(ps, best) ==
  IF ps = <<>> THEN best ELSE LandauLoop(Tail(ps), LandauStep(best, Head(ps)))

\* the pair landau(m) returns
landau(m) == LandauLoop(partitions(m, None), <<0, <<>>>>)

(***************************************************************************)
(* landau_audio_loop(audio, sample_rate, partition): array helpers.        *)
(***************************************************************************)
\* The test signals an input buffer is drawn from: sample t of channel c.
Signals == {"silent", "ramp", "negramp", "alt"}

Signal(k, t, c) ==
  CASE k = "silent"  -> 0
    [] k = "ramp"    -> 10 * t + c + 1
    [] k = "negramp" -> -(10 * t + c + 1)
    [] k = "alt"     -> IF t % 2 = 0 THEN c + 1 ELSE -(c + 1)

\* audio.reshape(-1, 1) of a one-dimensional array
reshape(a) == [t \in DOMAIN a |-> [c \in {0} |-> a[t]]]

\* int(round(n_samples / sample_rate)): Python rounds a half to the even integer
round(num, den) ==
  LET q == num \div den
      r == num % den
  IN  IF 2 * r < den THEN q
      ELSE IF 2 * r > den THEN q + 1
      ELSE IF q % 2 = 0 THEN q ELSE q + 1

\* abs(duration_seconds - n) > 0.1, for n_samples = num and sample_rate = den
FarFromInteger(num, den, m) == 10 * Abs(num - m * den) > den

\* the test `sum(partition) != n`
\* (faulty variant: only a sum above n is rejected)
SumMismatchOnlyAbove(p, m) == sum(p) > m

SumMismatch(p, m) == sum(p) # m

\* number of rows of an array (len(a)) and of columns of a non-empty one
Len2(a) == Cardinality(DOMAIN a)

Cols(a) == IF DOMAIN a = {} THEN 0 ELSE Cardinality(DOMAIN a[0])

\* the rows a[lo:hi] selects from an array of `rows` rows (lo, hi >= 0):
\* first row and number of rows
SliceStart(lo, rows) == Min(lo, rows)

SliceLen(lo, hi, rows) ==
  IF Min(hi, rows) > Min(lo, rows) THEN Min(hi, rows) - Min(lo, rows) ELSE 0

\* output_samples = g_n * sample_rate
\* (faulty variant: the output is given the input's n seconds)
OutputSamplesOfInput(g, rate, m) == m * rate

OutputSamples(g, rate, m) == g * rate

\* np.zeros((rows, cols))
zeros(rows, cols) == [t \in 0..(rows - 1) |-> [c \in 0..(cols - 1) |-> 0]]

\* segment = audio[start_sample:end_sample], as [start, end, len]: the slice
\* asked for and the number of rows it holds
\* (faulty variant: every segment starts at row 0)
CutSegmentFromZero(a_rows, start, end) ==
  [start |-> 0, end |-> end, len |-> SliceLen(0, end, a_rows)]

CutSegment(a_rows, start, end) ==
  [start |-> start, end |-> end, len |-> SliceLen(start, end, a_rows)]

\* row k of the segment s cut from buffer a
SegmentRow(a, s, k) == a[SliceStart(s.start, Len2(a)) + k]

\* whether numpy can add an array of `len` rows into a slice of `rows` rows
Broadcastable(len, rows) == len = rows \/ len = 1

\* output[loop_start:loop_end] += segment
\* (faulty variant: `=` in place of `+=`)
AddTileOverwrite(out, a, s, lp) ==
  LET lo == SliceStart(lp * s.len, Len2(out))
      m  == SliceLen(lp * s.len, lp * s.len + s.len, Len2(out))
  IN  [t \in DOMAIN out |->
         IF t >= lo /\ t < lo + m
         THEN SegmentRow(a, s, IF s.len = 1 THEN 0 ELSE t - lo)
         ELSE out[t]]

AddTile(out, a, s, lp) ==
  LET lo == SliceStart(lp * s.len, Len2(out))
      m  == SliceLen(lp * s.len, lp * s.len + s.len, Len2(out))
  IN  [t \in DOMAIN out |->
         IF t >= lo /\ t < lo + m
         THEN [c \in DOMAIN out[t] |->
                 out[t][c] + SegmentRow(a, s, IF s.len = 1 THEN 0 ELSE t - lo)[c]]
         ELSE out[t]]

\* np.max(output) and np.max(np.abs(output)) of a non-empty array
\* (MaxSigned is the faulty variant of the peak: np.abs left out)
MaxSigned(out) ==
  CHOOSE m \in {out[t][c] : t \in DOMAIN out, c \in 0..(Cols(out) - 1)} :
    \A t \in DOMAIN out : \A c \in DOMAIN out[t] : out[t][c] <= m

MaxAbs(out) ==
  CHOOSE m \in {Abs(out[t][c]) : t \in DOMAIN out, c \in 0..(Cols(out) - 1)} :
    \A t \in DOMAIN out : \A c \in DOMAIN out[t] : Abs(out[t][c]) <= m

\* max_val = np.max(np.abs(output))
PeakOf(out) == MaxAbs(out)

\* output / max_val: every sample's exact quotient
Divide(out, m) ==
  [t \in DOMAIN out |-> [c \in DOMAIN out[t] |-> [num |-> out[t][c], den |-> m]]]

\* the normalisation: output = output / max_val if max_val > 0
Normalize(out, m) == IF m > 0 THEN Divide(out, m) ELSE out

\* ndarray.squeeze() on a shape: every axis of length 1 is removed
squeeze(sh) == SelectSeq(sh, LAMBDA d : d # 1)

\* the shape of the returned array
ReturnedShape(rows, cols) ==
  IF cols = 1 THEN squeeze(<<rows, cols>>) ELSE <<rows, cols>>

NoError == [type |-> "none", partition |-> <<>>, sum |-> 0, n |-> 0]

\* (faulty variant: the sum and n are reported in each other's place)
ValueErrorSwapped(p, m) == [type |-> "ValueError", partition |-> p, sum |-> m, n |-> sum(p)]

ValueError(p, m) == [type |-> "ValueError", partition |-> p, sum |-> sum(p), n |-> m]

ZeroDivisionError == [type |-> "ZeroDivisionError", partition |-> <<>>, sum |-> 0, n |-> 0]

BroadcastError == [type |-> "BroadcastError", partition |-> <<>>, sum |-> 0, n |-> 0]

EmptyReductionError == [type |-> "EmptyReductionError", partition |-> <<>>, sum |-> 0, n |-> 0]

(***************************************************************************)
(* The state before the call.                                              *)
(***************************************************************************)
\* the partitions a caller may supply: any list of 0..MaxParts parts in 0..MaxPart
SuppliedPartitions == UNION {[1..k -> 0..MaxPart] : k \in 0..MaxParts}

\* the buffers a caller may pass, with their shapes
InputBuffers ==
  {[shape |-> <<rows>>, data |-> [t \in 0..(rows - 1) |-> Signal(k, t, 0)]] :
     rows \in 0..MaxSamples, k \in Signals}
  \cup
  {[shape |-> <<rows, cols>>,
    data |-> [t \in 0..(rows - 1) |-> [c \in 0..(cols - 1) |-> Signal(k, t, c)]]] :
     rows \in 0..MaxSamples, cols \in 1..MaxChannels, k \in Signals}

GenIdle ==
  /\ gen = <<>> /\ yielded = <<>>
  /\ best_lcm = None /\ best_partition = <<>>

AudioIdle ==
  /\ ndim = None /\ shape = <<>> /\ audio = <<>> /\ sample_rate = None
  /\ n_samples = None /\ n_channels = None
  /\ warned = FALSE /\ partition = <<>> /\ partition_is_None = TRUE
  /\ g_n = None /\ output_samples = None /\ output = <<>>
  /\ current_pos = None /\ i = None
  /\ seg = [start |-> 0, end |-> 0, len |-> 0]
  /\ n_loops = None /\ loop = None /\ segments = <<>>
  /\ max_peak = None /\ out_shape = <<>>

InitPartitions ==
  /\ call = "partitions" /\ pc = "g_call"
  /\ n \in 0..MaxGenN
  /\ max_val \in {None} \cup (0..(MaxGenN + 1))
  /\ GenIdle /\ AudioIdle /\ error = NoError

InitLandau ==
  /\ call = "landau" /\ pc = "l_call"
  /\ n \in 0..MaxN
  /\ max_val = None
  /\ GenIdle /\ AudioIdle /\ error = NoError

InitAudio ==
  /\ call = "audio" /\ pc = "a_call"
  /\ n = None /\ max_val = None /\ GenIdle
  /\ \E b \in InputBuffers :
       /\ ndim = Len(b.shape) /\ shape = b.shape /\ audio = b.data
  /\ sample_rate \in 1..MaxRate
  /\ n_samples = None /\ n_channels = None
  /\ warned = FALSE
  /\ \/ partition_is_None = TRUE /\ partition = <<>>
     \/ partition_is_None = FALSE /\ partition \in SuppliedPartitions
  /\ g_n = None /\ output_samples = None /\ output = <<>>
  /\ current_pos = None /\ i = None
  /\ seg = [start |-> 0, end |-> 0, len |-> 0]
  /\ n_loops = None /\ loop = None /\ segments = <<>>
  /\ max_peak = None /\ out_shape = <<>>
  /\ error = NoError

Init == InitPartitions \/ InitLandau \/ InitAudio

(***************************************************************************)
(* A consumer draining partitions(n, max_val), as list(partitions(...)).   *)
(***************************************************************************)
PartitionsCall ==
  /\ call = "partitions" /\ pc = "g_call"
  /\ gen' = partitions(n, max_val)
  /\ pc' = "g_next"
  /\ UNCHANGED <<call, n, max_val, yielded, best_lcm, best_partition, ivars, avars, error>>

PartitionsYield ==
  /\ call = "partitions" /\ pc = "g_next" /\ gen # <<>>
  /\ yielded' = Append(yielded, Head(gen))
  /\ gen' = Tail(gen)
  /\ UNCHANGED <<call, pc, n, max_val, best_lcm, best_partition, ivars, avars, error>>

PartitionsExhausted ==
  /\ call = "partitions" /\ pc = "g_next" /\ gen = <<>>
  /\ pc' = "done"
  /\ UNCHANGED <<call, gvars, ivars, avars, error>>

(***************************************************************************)
(* landau(n), one loop iteration per step.                                 *)
(***************************************************************************)
LandauCall ==
  /\ call = "landau" /\ pc = "l_call"
  /\ best_lcm' = 0
  /\ best_partition' = <<>>
  /\ gen' = partitions(n, None)
  /\ pc' = "l_loop"
  /\ UNCHANGED <<call, n, max_val, yielded, ivars, avars, error>>

LandauIterate ==
  /\ call = "landau" /\ pc = "l_loop" /\ gen # <<>>
  /\ LET best == LandauStep(<<best_lcm, best_partition>>, Head(gen))
     IN  /\ best_lcm' = best[1]
         /\ best_partition' = best[2]
  /\ yielded' = Append(yielded, Head(gen))
  /\ gen' = Tail(gen)
  /\ UNCHANGED <<call, pc, n, max_val, ivars, avars, error>>

LandauReturn ==
  /\ call = "landau" /\ pc = "l_loop" /\ gen = <<>>
  /\ pc' = "done"
  /\ UNCHANGED <<call, gvars, ivars, avars, error>>

(***************************************************************************)
(* landau_audio_loop(audio, sample_rate, partition)                        *)
(***************************************************************************)
\* lines 67-79: reshape, shape, n, the warning
Prepare ==
  /\ call = "audio" /\ pc = "a_call"
  /\ audio' = IF ndim = 1 THEN reshape(audio) ELSE audio
  /\ shape' = IF ndim = 1 THEN <<shape[1], 1>> ELSE shape
  /\ n_samples' = shape'[1]
  /\ n_channels' = shape'[2]
  /\ n' = round(n_samples', sample_rate)
  /\ warned' = FarFromInteger(n_samples', sample_rate, n')
  /\ pc' = "a_partition"
  /\ UNCHANGED <<call, max_val, gen, yielded, best_lcm, best_partition,
                 ndim, sample_rate, partition, partition_is_None, g_n,
                 output_samples, output, current_pos, i, seg, n_loops, loop,
                 segments, max_peak, out_shape, error>>

\* lines 82-83
SearchPartition ==
  /\ call = "audio" /\ pc = "a_partition" /\ partition_is_None
  /\ g_n' = landau(n)[1]
  /\ partition' = landau(n)[2]
  /\ pc' = "a_alloc"
  /\ UNCHANGED <<call, gvars, ivars, warned, partition_is_None,
                 output_samples, output, current_pos, i, seg, n_loops, loop,
                 segments, max_peak, out_shape, error>>

\* lines 84-86, the test passing
AcceptPartition ==
  /\ call = "audio" /\ pc = "a_partition" /\ ~partition_is_None
  /\ g_n' = lcm_list(partition)
  /\ ~SumMismatch(partition, n)
  /\ pc' = "a_alloc"
  /\ UNCHANGED <<call, gvars, ivars, warned, partition, partition_is_None,
                 output_samples, output, current_pos, i, seg, n_loops, loop,
                 segments, max_peak, out_shape, error>>

\* lines 84-87, the test failing
RejectPartition ==
  /\ call = "audio" /\ pc = "a_partition" /\ ~partition_is_None
  /\ g_n' = lcm_list(partition)
  /\ SumMismatch(partition, n)
  /\ error' = ValueError(partition, n)
  /\ pc' = "raised"
  /\ UNCHANGED <<call, gvars, ivars, warned, partition, partition_is_None,
                 output_samples, output, current_pos, i, seg, n_loops, loop,
                 segments, max_peak, out_shape>>

\* lines 94-99
Allocate ==
  /\ call = "audio" /\ pc = "a_alloc"
  /\ output_samples' = OutputSamples(g_n, sample_rate, n)
  /\ output' = zeros(output_samples', n_channels)
  /\ current_pos' = 0
  /\ i' = 0
  /\ pc' = "a_segment"
  /\ UNCHANGED <<call, gvars, ivars, warned, partition, partition_is_None, g_n,
                 seg, n_loops, loop, segments, max_peak, out_shape, error>>

\* lines 100-109: the next part's segment and its loop count
ExtractSegment ==
  /\ call = "audio" /\ pc = "a_segment" /\ i < Len(partition)
  /\ LET part_length == partition[i + 1]
         start_sample == current_pos
         end_sample == current_pos + part_length * sample_rate
         segment == CutSegment(n_samples, start_sample, end_sample)
     IN  /\ seg' = segment
         /\ IF part_length = 0
            THEN /\ error' = ZeroDivisionError
                 /\ pc' = "raised"
                 /\ segments' = Append(segments, [seg |-> segment, n_loops |-> None])
                 /\ UNCHANGED <<n_loops, loop>>
            ELSE /\ n_loops' = g_n \div part_length
                 /\ loop' = 0
                 /\ pc' = "a_loop"
                 /\ segments' = Append(segments, [seg |-> segment, n_loops |-> n_loops'])
                 /\ UNCHANGED error
  /\ UNCHANGED <<call, gvars, ivars, warned, partition, partition_is_None, g_n,
                 output_samples, output, current_pos, i, max_peak, out_shape>>

\* lines 112-115: one iteration of the inner loop
AddLoop ==
  /\ call = "audio" /\ pc = "a_loop" /\ loop < n_loops
  /\ IF Broadcastable(seg.len,
                      SliceLen(loop * seg.len, loop * seg.len + seg.len, output_samples))
     THEN /\ output' = AddTile(output, audio, seg, loop)
          /\ loop' = loop + 1
          /\ UNCHANGED <<pc, error>>
     ELSE /\ error' = BroadcastError
          /\ pc' = "raised"
          /\ UNCHANGED <<output, loop>>
  /\ UNCHANGED <<call, gvars, ivars, warned, partition, partition_is_None, g_n,
                 output_samples, current_pos, i, seg, n_loops, segments,
                 max_peak, out_shape>>

\* line 117, after the inner loop
NextSegment ==
  /\ call = "audio" /\ pc = "a_loop" /\ loop >= n_loops
  /\ current_pos' = seg.end
  /\ i' = i + 1
  /\ pc' = "a_segment"
  /\ UNCHANGED <<call, gvars, ivars, warned, partition, partition_is_None, g_n,
                 output_samples, output, seg, n_loops, loop, segments,
                 max_peak, out_shape, error>>

\* lines 119-122
NormalizeOutput ==
  /\ call = "audio" /\ pc = "a_segment" /\ i >= Len(partition)
  /\ IF output_samples * n_channels = 0
     THEN /\ error' = EmptyReductionError
          /\ pc' = "raised"
          /\ UNCHANGED <<max_peak, output>>
     ELSE /\ max_peak' = PeakOf(output)
          /\ output' = Normalize(output, max_peak')
          /\ pc' = "a_return"
          /\ UNCHANGED error
  /\ UNCHANGED <<call, gvars, ivars, warned, partition, partition_is_None, g_n,
                 output_samples, current_pos, i, seg, n_loops, loop, segments,
                 out_shape>>

\* lines 124-128
Return ==
  /\ call = "audio" /\ pc = "a_return"
  /\ out_shape' = ReturnedShape(output_samples, n_channels)
  /\ pc' = "done"
  /\ UNCHANGED <<call, gvars, ivars, warned, partition, partition_is_None, g_n,
                 output_samples, output, current_pos, i, seg, n_loops, loop,
                 segments, max_peak, error>>

Next ==
  \/ PartitionsCall \/ PartitionsYield \/ PartitionsExhausted
  \/ LandauCall \/ LandauIterate \/ LandauReturn
  \/ Prepare \/ SearchPartition \/ AcceptPartition \/ RejectPartition
  \/ Allocate \/ ExtractSegment \/ AddLoop \/ NextSegment
  \/ NormalizeOutput \/ Return

Spec == Init /\ [][Next]_vars

(***************************************************************************)
(* Reference notions the properties are stated with.  They are defined     *)
(* from the mathematics, not from the program: a composition of m is read  *)
(* off a set of cut points in 1..m-1, and a partition is a composition     *)
(* whose parts do not increase.                                            *)
(***************************************************************************)
Range(s) == {s[k] : k \in 1..Len(s)}

SetMin(S) == CHOOSE x \in S : \A y \in S : x <= y

RECURSIVE CompositionOf(_, _, _)
CompositionOf(cuts, lo, m) ==
  IF lo >= m THEN <<>>
  ELSE LET nxt == SetMin({x \in cuts \cup {m} : x > lo})
       IN  <<nxt - lo>> \o CompositionOf(cuts, nxt, m)

Compositions(m) == {CompositionOf(cuts, 0, m) : cuts \in SUBSET (1..(m - 1))}

NonIncreasing(s) == \A k \in 1..(Len(s) - 1) : s[k] >= s[k + 1]

\* every partition of m with all parts <= bound
PartitionsOf(m, bound) ==
  {c \in Compositions(m) : NonIncreasing(c) /\ \A k \in 1..Len(c) : c[k] <= bound}

IsCommonMultiple(g, s) == \A k \in 1..Len(s) : s[k] >= 1 /\ g % s[k] = 0

\* g is the least common multiple of the positive integers of s
IsLeastCommonMultiple(g, s) ==
  /\ g >= 1
  /\ IsCommonMultiple(g, s)
  /\ \A h \in 1..(g - 1) : ~IsCommonMultiple(h, s)

\* m is an integer nearest to rows / rate
IsRoundedSeconds(m, rows, rate) == 2 * Abs(m * rate - rows) <= rate

(***************************************************************************)
(* C1                                                                      *)
(***************************************************************************)
EffectiveBound == IF max_val = None THEN n ELSE max_val

\* C1: partitions(n, max_val) yields exactly the partitions of n with all parts
\* <= max_val (max_val defaulting to n): every list yielded is made of positive
\* integers in non-increasing order summing to n, none is yielded twice, none is
\* left out once the generator is exhausted, and for n = 0 the only list
\* yielded is the empty one.
C1_PartitionsExact ==
  call = "partitions" =>
    /\ \A k \in 1..Len(yielded) :
         /\ \A j \in 1..Len(yielded[k]) :
              yielded[k][j] >= 1 /\ yielded[k][j] <= EffectiveBound
         /\ NonIncreasing(yielded[k])
         /\ sum(yielded[k]) = n
    /\ \A j, k \in 1..Len(yielded) : j # k => yielded[j] # yielded[k]
    /\ pc = "done" =>
         /\ Range(yielded) = PartitionsOf(n, EffectiveBound)
         /\ n = 0 => yielded = << <<>> >>

C1_Witness ==
  /\ call = "partitions" /\ pc = "done"
  /\ n = 6 /\ max_val = 3
  /\ Len(yielded) = 7
  /\ yielded[1] = <<3, 3>>

(***************************************************************************)
(* C2                                                                      *)
(***************************************************************************)
\* C2: for n <= MaxN the value landau(n) returns is the maximum LCM over the
\* partitions of n: some partition of n has it as its least common multiple,
\* no partition of n has a greater one, and it is 1 for n = 0.
C2_LandauIsMaximum ==
  (call = "landau" /\ pc = "done") =>
    /\ \E c \in PartitionsOf(n, n) : IsLeastCommonMultiple(best_lcm, c)
    /\ \A c \in PartitionsOf(n, n) : \E g \in 1..best_lcm : IsCommonMultiple(g, c)
    /\ n = 0 => best_lcm = 1

C2_Witness ==
  /\ call = "landau" /\ pc = "done"
  /\ n = 15 /\ best_lcm = 105
  /\ Len(yielded) = 176

(***************************************************************************)
(* C3                                                                      *)
(***************************************************************************)
ReferencePairs ==
  (0 :> <<1, <<>>>>) @@ (1 :> <<1, <<1>>>>) @@ (2 :> <<2, <<2>>>>)
  @@ (3 :> <<3, <<3>>>>) @@ (4 :> <<4, <<4>>>>) @@ (5 :> <<6, <<3, 2>>>>)
  @@ (6 :> <<6, <<6>>>>) @@ (7 :> <<12, <<4, 3>>>>) @@ (8 :> <<15, <<5, 3>>>>)
  @@ (9 :> <<20, <<5, 4>>>>) @@ (10 :> <<30, <<5, 3, 2>>>>)
  @@ (12 :> <<60, <<5, 4, 3>>>>)

\* C3: throughout the search landau holds the first of the partitions seen so
\* far whose LCM is the greatest seen so far (a later partition with an equal
\* LCM never replaces it), the partitions being seen in the largest-part-first
\* order of partitions(n); so landau returns the reference pairs for
\* n = 0..10 and 12.
C3_FirstMaximumKept ==
  (call = "landau" /\ pc \in {"l_loop", "done"}) =>
    /\ yielded = <<>> => (best_lcm = 0 /\ best_partition = <<>>)
    /\ yielded # <<>> =>
         \E k \in 1..Len(yielded) :
           /\ best_partition = yielded[k]
           /\ best_lcm = lcm_list(yielded[k])
           /\ \A j \in 1..(k - 1) : lcm_list(yielded[j]) < best_lcm
           /\ \A j \in (k + 1)..Len(yielded) : lcm_list(yielded[j]) <= best_lcm
    /\ \A k \in 1..(Len(yielded) - 1) : yielded[k][1] >= yielded[k + 1][1]
    /\ (pc = "done" /\ n \in DOMAIN ReferencePairs) =>
         <<best_lcm, best_partition>> = ReferencePairs[n]

C3_Witness ==
  /\ call = "landau" /\ pc = "done"
  /\ n = 6 /\ best_partition = <<6>> /\ best_lcm = 6
  /\ \E k \in 2..Len(yielded) : yielded[k] = <<3, 2, 1>> /\ lcm_list(yielded[k]) = 6

(***************************************************************************)
(* C4                                                                      *)
(***************************************************************************)
\* C4: every (g_n, partition) pair returned has sum(partition) = n and g_n the
\* least common multiple of the partition: for landau(n), and for
\* landau_audio_loop when it returns, whether the partition was searched or
\* supplied, n being the number of seconds of the buffer rounded to an integer.
C4_ReturnedPairConsistent ==
  /\ (call = "landau" /\ pc = "done") =>
       /\ sum(best_partition) = n
       /\ IsLeastCommonMultiple(best_lcm, best_partition)
  /\ (call = "audio" /\ pc = "done") =>
       /\ IsRoundedSeconds(n, n_samples, sample_rate)
       /\ sum(partition) = n
       /\ IsLeastCommonMultiple(g_n, partition)

C4_Witness ==
  /\ call = "audio" /\ pc = "done"
  /\ ~partition_is_None /\ partition = <<2, 2>>
  /\ n = 4 /\ g_n = 2 /\ n_samples = 7 /\ sample_rate = 2

(***************************************************************************)
(* C5                                                                      *)
(***************************************************************************)
\* C5: once landau_audio_loop has examined a caller-supplied partition: if its
\* sum differs from n (the rounded number of seconds) the call has failed with
\* the ValueError carrying the partition, its sum and n, with no output buffer
\* allocated, no segment cut and nothing returned; if its sum is n the
\* ValueError is not raised, optimal partition or not.
C5_MismatchRaises ==
  (call = "audio" /\ ~partition_is_None /\ pc \notin {"a_call", "a_partition"}) =>
    /\ IsRoundedSeconds(n, n_samples, sample_rate)
    /\ sum(partition) # n =>
         /\ pc = "raised"
         /\ error = [type |-> "ValueError", partition |-> partition,
                     sum |-> sum(partition), n |-> n]
         /\ output_samples = None /\ output = <<>>
         /\ segments = <<>> /\ i = None
         /\ max_peak = None /\ out_shape = <<>>
    /\ sum(partition) = n => error.type # "ValueError"

C5_Witness ==
  /\ call = "audio" /\ pc = "raised"
  /\ partition = <<3, 1>> /\ n = 5
  /\ error.type = "ValueError" /\ error.sum = 4 /\ error.n = 5

\* a supplied partition that is not optimal is accepted when it sums to n
C5_SuboptimalAccepted ==
  /\ call = "audio" /\ pc = "a_alloc"
  /\ ~partition_is_None /\ partition = <<2, 2>> /\ n = 4
  /\ g_n < landau(n)[1]

(***************************************************************************)
(* C6                                                                      *)
(***************************************************************************)
\* the state in which every segment has been looped and nothing is normalised yet
Mixed == call = "audio" /\ pc = "a_segment" /\ i >= Len(partition)

\* first sample of part k: the parts before it, in samples
RECURSIVE Offset(_)
Offset(k) == IF k <= 1 THEN 0 ELSE Offset(k - 1) + partition[k - 1] * sample_rate

\* the sum over parts 1..k of segment sample (t mod part length in samples)
RECURSIVE LoopedSum(_, _, _)
LoopedSum(k, t, c) ==
  IF k = 0 THEN 0
  ELSE LoopedSum(k - 1, t, c)
       + audio[Offset(k) + (t % (partition[k] * sample_rate))][c]

\* the same with the segments as they were cut: a segment of len rows covers
\* n_loops * len rows of the output
RECURSIVE TiledSum(_, _, _)
TiledSum(k, t, c) ==
  IF k = 0 THEN 0
  ELSE TiledSum(k - 1, t, c)
       + (IF t < segments[k].n_loops * segments[k].seg.len
          THEN audio[segments[k].seg.start + (t % segments[k].seg.len)][c]
          ELSE 0)

LoopCountsExact ==
  \A k \in 1..Len(partition) :
    /\ partition[k] >= 1
    /\ g_n % partition[k] = 0
    /\ segments[k].n_loops * partition[k] = g_n

FullTiling ==
  /\ \A k \in 1..Len(partition) :
       /\ segments[k].seg.len = partition[k] * sample_rate
       /\ segments[k].n_loops * segments[k].seg.len = g_n * sample_rate
  /\ \A t \in 0..(g_n * sample_rate - 1) : \A c \in 0..(n_channels - 1) :
       output[t][c] = LoopedSum(Len(partition), t, c)

\* C6 as stated: for every input, each segment's n_loops copies fill the output
\* exactly and the mix is the sum of the segments looped with their parts' periods.
C6_AsStated == Mixed => (LoopCountsExact /\ FullTiling)

\* C6: n_loops = g_n / part_length is exact for every part; each segment is
\* added (not written) n_loops times back to back from output sample 0, so the
\* mix at t is the sum over the segments of the segment's sample at t mod its
\* length, wherever its copies reach; and when the buffer holds at least
\* n * sample_rate samples every segment has part * sample_rate samples, its
\* copies fill the g_n * sample_rate output exactly, and the mix at t is the sum
\* over the parts of segment sample t mod (part * sample_rate).
C6_LoopsAdded ==
  Mixed =>
    /\ LoopCountsExact
    /\ DOMAIN output = 0..(g_n * sample_rate - 1)
    /\ \A t \in DOMAIN output : \A c \in 0..(n_channels - 1) :
         output[t][c] = TiledSum(Len(partition), t, c)
    /\ n_samples >= n * sample_rate => FullTiling

C6_Witness ==
  /\ Mixed
  /\ n_samples = 5 /\ sample_rate = 1 /\ n_channels = 1
  /\ partition = <<3, 2>> /\ g_n = 6
  /\ audio[0][0] = 1
  /\ output[5][0] = audio[2][0] + audio[4][0]
  /\ output[3][0] = audio[0][0] + audio[4][0]

(***************************************************************************)
(* C7                                                                      *)
(***************************************************************************)
\* input sample t lies in the k-th segment
InSegment(t, k) ==
  /\ t >= segments[k].seg.start
  /\ t < segments[k].seg.end
  /\ t < n_samples

\* the segments cut so far follow one another in partition order
SegmentsInOrder ==
  /\ Len(segments) <= Len(partition)
  /\ \A k \in 1..Len(segments) :
       /\ segments[k].seg.start = Offset(k)
       /\ segments[k].seg.end = Offset(k) + partition[k] * sample_rate
       /\ segments[k].seg.len =
            Cardinality({t \in 0..(n_samples - 1) : InSegment(t, k)})

SegmentsFullLength ==
  \A k \in 1..Len(segments) : segments[k].seg.len = partition[k] * sample_rate

SegmentsSpanInput ==
  \A t \in 0..(n_samples - 1) : \E k \in 1..Len(segments) : InSegment(t, k)

SegmentsDisjoint ==
  \A t \in 0..(n_samples - 1) : \A j, k \in 1..Len(segments) :
    (InSegment(t, j) /\ InSegment(t, k)) => j = k

\* C7 as stated: for every input, the segments have part * sample_rate samples
\* each and every input sample lies in exactly one of them.
C7_AsStated ==
  Mixed =>
    /\ Len(segments) = Len(partition)
    /\ SegmentsInOrder
    /\ SegmentsFullLength
    /\ SegmentsSpanInput
    /\ SegmentsDisjoint

\* C7: the segments cut are one per part, in partition order, consecutive and
\* non-overlapping, segment i being the rows of the buffer in
\* [offset_i, offset_i + part_i * sample_rate); they all have
\* part_i * sample_rate samples exactly when the buffer holds at least
\* n * sample_rate samples, and they span the whole buffer exactly when it holds
\* at most n * sample_rate samples: both, when it holds exactly n * sample_rate.
C7_SegmentsConsecutive ==
  /\ call = "audio" => (SegmentsInOrder /\ SegmentsDisjoint)
  /\ Mixed =>
    /\ Len(segments) = Len(partition)
    /\ SegmentsFullLength <=> (n_samples >= n * sample_rate)
    /\ SegmentsSpanInput <=> (n_samples <= n * sample_rate)

C7_Witness ==
  /\ Mixed
  /\ n_samples = 6 /\ sample_rate = 2 /\ partition = <<2, 1>>
  /\ segments[1].seg = [start |-> 0, end |-> 4, len |-> 4]
  /\ segments[2].seg = [start |-> 4, end |-> 6, len |-> 2]

(***************************************************************************)
(* C8                                                                      *)
(***************************************************************************)
\* C8 as stated: the returned array is one-dimensional exactly when the input
\* was, and a two-dimensional input of c channels gives a two-dimensional
\* output of c channels.
C8_AsStated ==
  (call = "audio" /\ pc = "done") =>
    /\ Len(out_shape) = 1 <=> ndim = 1
    /\ ndim = 2 => out_shape = <<g_n * sample_rate, n_channels>>

(***************************************************************************)
(* C9                                                                      *)
(***************************************************************************)
RECURSIVE Product(_)
Product(sh) == IF sh = <<>> THEN 1 ELSE Head(sh) * Product(Tail(sh))

\* C9: the returned buffer has exactly g_n * sample_rate samples in each of the
\* input's channels, whatever the input's own sample count.
C9_OutputLength ==
  (call = "audio" /\ pc = "done") =>
    /\ DOMAIN output = 0..(g_n * sample_rate - 1)
    /\ \A t \in DOMAIN output : DOMAIN output[t] = 0..(n_channels - 1)
    /\ Product(out_shape) = g_n * sample_rate * n_channels
    /\ out_shape # <<>> => out_shape[1] = g_n * sample_rate

C9_Witness ==
  /\ call = "audio" /\ pc = "done"
  /\ n_samples = 7 /\ sample_rate = 2 /\ n = 4
  /\ partition_is_None /\ g_n = 4
  /\ n_channels = 2 /\ out_shape = <<8, 2>>

(***************************************************************************)
(* C10                                                                     *)
(***************************************************************************)
Entries(out) == {out[t][c] : t \in DOMAIN out, c \in 0..(Cols(out) - 1)}

\* m is the greatest absolute value of the samples of a non-empty buffer
IsPeak(m, out) ==
  /\ \A x \in Entries(out) : Abs(x) <= m
  /\ \E x \in Entries(out) : Abs(x) = m

\* the greatest absolute value of the quotients of a buffer is exactly 1
PeakIsOne(out) ==
  /\ \A q \in Entries(out) : q.den > 0 /\ Abs(q.num) <= q.den
  /\ \E q \in Entries(out) : Abs(q.num) = q.den

\* C10: the normalisation step never fails; it takes the greatest absolute value
\* over all samples of all channels; if that is positive every sample becomes
\* its quotient by it and the greatest absolute value of the result is exactly
\* 1; if it is zero, as for a silent input, the buffer is left as it is, all
\* zeros.
C10_Normalization ==
  [][Mixed =>
       /\ pc' = "a_return"
       /\ error' = NoError
       /\ IsPeak(max_peak', output)
       /\ max_peak' > 0 =>
            /\ DOMAIN output' = DOMAIN output
            /\ \A t \in DOMAIN output : \A c \in 0..(n_channels - 1) :
                 output'[t][c] = [num |-> output[t][c], den |-> max_peak']
            /\ PeakIsOne(output')
       /\ max_peak' = 0 =>
            /\ output' = output
            /\ \A x \in Entries(output') : x = 0
       /\ (\A t \in DOMAIN audio : \A c \in 0..(n_channels - 1) : audio[t][c] = 0)
            => max_peak' = 0
  ]_vars

C10_Witness ==
  /\ call = "audio" /\ pc = "a_return"
  /\ n_channels = 2 /\ max_peak > 0
  /\ \E t \in DOMAIN output :
       /\ output[t][1].num = -max_peak
       /\ Abs(output[t][0].num) < max_peak

\* a buffer that is not silent mixes to silence and is returned unscaled
C10_SilentMix ==
  /\ call = "audio" /\ pc = "a_return"
  /\ max_peak = 0
  /\ \E t \in DOMAIN audio : audio[t][0] # 0

====
